---------------------------- MODULE Spec2Model ----------------------------
(***************************************************************************)
(* Chat deletion across the four stores of the SUDAR agent API:            *)
(*   object store (MinIO), vector index (Qdrant), checkpoint database      *)
(*   (MongoDB "SUDAR") and message history (ChatService).                  *)
(* The delete-chat handler is modelled call by call: every call to a store *)
(* is one step, with the failures the handler's try/except blocks see.     *)
(* ChatService is not part of the sources at hand; it is modelled from the *)
(* specification (a message log per chat identity, separate from the       *)
(* records the checkpoint deletion matches).                               *)
(***************************************************************************)
EXTENDS Integers, Sequences, FiniteSets, TLC

\* ------------------------------------------------------------------ bounds
MaxMsgs == 2      \* messages a chat holds initially
MaxPts == 2       \* embedding points a chat holds initially
MaxDocs == 2      \* database documents of the busiest chat initially
MaxFaults == 1    \* store failures injected in one run
MaxCalls == 2     \* requests made in one run

\* ------------------------------------------------------- program constants
ScrollLimit == 10000   \* limit= of the scroll in delete_chat_embeddings

\* --------------------------------------------------------------- identities
Absent == "<absent>"   \* a field a document does not carry

Chat(u, c) == [user_id |-> u, chat_id |-> c]

\* Three chat identities: ChatA and ChatC share the user, ChatA and ChatB
\* differ in both components.
ChatA == Chat("a", "b_c")
ChatB == Chat("a_b", "c")
ChatC == Chat("a", "c")
Chats == {ChatA, ChatB, ChatC}

FileNames == {"n1", "n2"}

\* Request slots: a handler invocation runs in one of them.
Calls == {1, 2}

\* ------------------------------------------------------------ key formats
\* A variant that joins the two components without a separator.
ThreadIdNoSeparator(user_id, chat_id) == user_id \o chat_id

\* f"{user_id}_{chat_id}"
ThreadId(user_id, chat_id) == user_id \o "_" \o chat_id

\* f"{user_id}/{chat_id}/"
Prefix(user_id, chat_id) == user_id \o "/" \o chat_id \o "/"

\* f"{user_id}/{chat_id}/{sanitized_name}"
ObjectKey(user_id, chat_id, name) == user_id \o "/" \o chat_id \o "/" \o name

StartsWith(s, p) == Len(s) >= Len(p) /\ SubSeq(s, 1, Len(p)) = p

\* ---------------------------------------------------------- object store
\* minio_client.list_objects(bucket, prefix=prefix, recursive=True)
ListObjects(objs, prefix) == {k \in objs : StartsWith(k, prefix)}

\* ----------------------------------------------------------- vector index
Point(u, c, i) == [id |-> <<u, c, i>>, user_id |-> u, chat_id |-> c]

\* A variant of the filter without the chat_id condition.
MatchingPointsAnyChat(pts, user_id, chat_id) ==
    {p \in pts : p.user_id = user_id}

\* Filter(must=[user_id == ..., chat_id == ...])
MatchingPoints(pts, user_id, chat_id) ==
    {p \in pts : p.user_id = user_id /\ p.chat_id = chat_id}

\* client.scroll(..., limit=limit): the first page, at most `limit` points
Scroll(pts, user_id, chat_id, limit) ==
    LET m == MatchingPoints(pts, user_id, chat_id)
    IN  IF Cardinality(m) <= limit THEN m
        ELSE CHOOSE s \in SUBSET m : Cardinality(s) = limit

\* Filter(must=[user_id == ...]); also get_embeddings_count's filter when
\* chat_id is None or empty
MatchingUserPoints(pts, user_id) == {p \in pts : p.user_id = user_id}

\* The filter a VectorService method builds: by user alone when chat_id is absent.
VsFilter(pts, user_id, chat_id) ==
    IF chat_id = Absent THEN MatchingUserPoints(pts, user_id)
    ELSE MatchingPoints(pts, user_id, chat_id)

\* The first page of a scroll over an already filtered set.
FirstPage(m, limit) ==
    IF Cardinality(m) <= limit THEN m
    ELSE CHOOSE s \in SUBSET m : Cardinality(s) = limit

\* A variant that lets the client's exception leave the method.
VsExceptReraise == [outcome |-> "raised", ret |-> 0]

\* except Exception: console.print(...); return 0
VsExcept == [outcome |-> "returned", ret |-> 0]

VsOps == {"delete_chat_embeddings", "delete_user_embeddings", "get_embeddings_count"}

\* A variant that counts the matching points and deletes none.
VectorDeleteCountOnly(exists, pts, user_id, chat_id, fails) ==
    IF fails \/ ~exists
    THEN [points |-> pts, ret |-> 0]
    ELSE [points |-> pts,
          ret |-> Cardinality(Scroll(pts, user_id, chat_id, ScrollLimit))]

\* delete_chat_embeddings: the collection and the value returned.
\* `fails` stands for any client call raising; the except returns 0.
VectorDelete(exists, pts, user_id, chat_id, fails) ==
    IF fails \/ ~exists
    THEN [points |-> pts, ret |-> 0]
    ELSE LET ids == Scroll(pts, user_id, chat_id, ScrollLimit)
         IN  [points |-> pts \ ids, ret |-> Cardinality(ids)]

\* ------------------------------------------------------ checkpoint database
\* The collections of the database: two of the checkpointer, one of another kind.
CollectionNames == {"checkpoints", "Checkpoint_writes", "misc"}

UpperCase == "ABCDEFGHIJKLMNOPQRSTUVWXYZ"
LowerCase == "abcdefghijklmnopqrstuvwxyz"

\* str.lower(), character by character
LowerChar(c) ==
    IF \E i \in 1..Len(UpperCase) : SubSeq(UpperCase, i, i) = c
    THEN LET i == CHOOSE j \in 1..Len(UpperCase) : SubSeq(UpperCase, j, j) = c
         IN  SubSeq(LowerCase, i, i)
    ELSE c

RECURSIVE Lower(_)
Lower(s) ==
    IF Len(s) = 0 THEN s
    ELSE LowerChar(SubSeq(s, 1, 1)) \o Lower(SubSeq(s, 2, Len(s)))

\* sub in s
Contains(s, sub) ==
    \E i \in 1..(Len(s) - Len(sub) + 1) : SubSeq(s, i, i + Len(sub) - 1) = sub

\* 'checkpoint' in name.lower()
IsCheckpointCollection(name) == Contains(Lower(name), "checkpoint")

CheckpointCollections == {n \in CollectionNames : IsCheckpointCollection(n)}

Doc(coll, thread_id, user_id, chat_id) ==
    [coll |-> coll, thread_id |-> thread_id, user_id |-> user_id, chat_id |-> chat_id]

\* collection.delete_many({"thread_id": thread_id}) over the collections `colls`
ThreadMatches(ds, colls, thread_id) ==
    {d \in ds : d.coll \in colls /\ d.thread_id = thread_id}

\* collection.delete_many({"chat_id": chat_id, "user_id": user_id}) over `colls`
FieldMatches(ds, colls, user_id, chat_id) ==
    {d \in ds : d.coll \in colls /\ d.user_id = user_id /\ d.chat_id = chat_id}

\* collection.count_documents({"thread_id": {"$regex": f"^{user_id}_"}}) over `colls`
UserThreadMatches(ds, colls, user_id) ==
    {d \in ds : d.coll \in colls /\ StartsWith(d.thread_id, user_id \o "_")}

\* A variant that also counts the records matched by their bare fields.
CheckpointCountWithFields(ds, user_id, chat_id, fails) ==
    IF fails THEN [docs |-> ds, ret |-> 0]
    ELSE [docs |-> ds,
          ret |-> Cardinality(
                    ThreadMatches(ds, CheckpointCollections, ThreadId(user_id, chat_id))
                    \cup FieldMatches(ds, CollectionNames, user_id, chat_id))]

\* get_checkpoint_count: the database and the value returned.  `fails`
\* stands for list_collection_names or count_documents raising: the first
\* leaves no collection to count, the second reaches the except clause.
CheckpointCount(ds, user_id, chat_id, fails) ==
    IF fails THEN [docs |-> ds, ret |-> 0]
    ELSE [docs |-> ds,
          ret |-> Cardinality(
                    IF chat_id # ""
                    THEN ThreadMatches(ds, CheckpointCollections,
                                       ThreadId(user_id, chat_id))
                    ELSE UserThreadMatches(ds, CheckpointCollections, user_id))]

\* What can go wrong inside delete_chat_checkpoints:
\*   "list1"  the first list_collection_names raises
\*   "pass1"  a delete_many of the first pass raises after the collections
\*            `done1` were processed
\*   "list2"  the second list_collection_names raises
\*   "none"   no whole-operation failure; the second pass's delete_many raises
\*            (and is swallowed) on the collections `skip2`
CheckpointPlans ==
    {[kind |-> "list1", done1 |-> {}, skip2 |-> {}],
     [kind |-> "list2", done1 |-> CheckpointCollections, skip2 |-> {}]}
    \cup {[kind |-> "pass1", done1 |-> d, skip2 |-> {}] :
            d \in (SUBSET CheckpointCollections) \ {CheckpointCollections}}
    \cup {[kind |-> "none", done1 |-> CheckpointCollections, skip2 |-> s] :
            s \in SUBSET CollectionNames}

PlanFaults(plan) == IF plan.kind = "none" THEN Cardinality(plan.skip2) ELSE 1

\* A variant whose second pass counts what matched before the first pass ran.
CheckpointDeleteCountTwice(ds, user_id, chat_id, plan) ==
    LET thread_id == ThreadId(user_id, chat_id)
        hit1 == IF plan.kind = "list1" THEN {}
                ELSE ThreadMatches(ds, plan.done1, thread_id)
        ds1 == ds \ hit1
        hit2 == IF plan.kind = "none"
                THEN FieldMatches(ds, CollectionNames \ plan.skip2, user_id, chat_id)
                ELSE {}
    IN  [docs |-> ds1 \ hit2,
         ret |-> IF plan.kind = "none"
                 THEN Cardinality(hit1) + Cardinality(hit2) ELSE 0]

\* delete_chat_checkpoints: the database and the value returned
CheckpointDelete(ds, user_id, chat_id, plan) ==
    LET thread_id == ThreadId(user_id, chat_id)
        hit1 == IF plan.kind = "list1" THEN {}
                ELSE ThreadMatches(ds, plan.done1, thread_id)
        ds1 == ds \ hit1
        hit2 == IF plan.kind = "none"
                THEN FieldMatches(ds1, CollectionNames \ plan.skip2, user_id, chat_id)
                ELSE {}
    IN  [docs |-> ds1 \ hit2,
         ret |-> IF plan.kind = "none"
                 THEN Cardinality(hit1) + Cardinality(hit2) ELSE 0]


\* ------------------------------------------------------------ message store
\* ChatService.getUserChat(user_id, chat_id): the chat's messages (their number)
GetUserChat(msgs, chat) == msgs[chat]

\* ChatService.deleteChatHistory(user_id, chat_id): the store and the value
\* returned (truthy when the history was deleted)
DeleteChatHistory(msgs, chat, fails) ==
    IF fails THEN [messages |-> msgs, ret |-> FALSE]
    ELSE [messages |-> [msgs EXCEPT ![chat] = 0], ret |-> msgs[chat] > 0]

\* --------------------------------------------------------- delete_chat glue
\* A variant without the precondition.
PreconditionNever(messages_count) == FALSE

\* if messages_count == 0: raise HTTPException(404)
PreconditionFails(messages_count) == messages_count = 0

\* A variant that deletes the history before the checkpoints.
StepOrderHistoryFirst == <<"remove", "vector", "history", "checkpoint">>

\* The order of the store steps inside the try block of delete_chat
StepOrder == <<"remove", "vector", "checkpoint", "history">>

StepIndex(step) == CHOOSE i \in 1..Len(StepOrder) : StepOrder[i] = step

FirstStep == StepOrder[1]

StepAfter(step) ==
    IF StepIndex(step) = Len(StepOrder) THEN "respond"
    ELSE StepOrder[StepIndex(step) + 1]

\* except S3Error around remove_object: is this failure caught by the loop?
CaughtInLoop(kind) == kind = "S3Error"

\* An absent value is the empty set, a present one a singleton.
NoCounts == {}

\* A variant with the file and message counts exchanged.
SuccessResponseSwapped(files, msgs, embeddings, checkpoints) ==
    [status |-> "ok",
     counts |-> {[files |-> msgs, messages |-> files,
                  embeddings |-> embeddings, checkpoints |-> checkpoints]}]

\* DeleteChatResponse(success=True, ..., deleted_files_count=files_count, ...)
SuccessResponse(files, msgs, embeddings, checkpoints) ==
    [status |-> "ok",
     counts |-> {[files |-> files, messages |-> msgs,
                  embeddings |-> embeddings, checkpoints |-> checkpoints]}]

\* raise HTTPException(status_code=..., detail=...)
ErrorResponse(code) == [status |-> code, counts |-> NoCounts]

\* A variant that ignores the value deleteChatHistory returned.
AfterHistoryIgnored(chat_deleted) == "continue"

\* if not chat_deleted: raise HTTPException(500), re-raised by the outer except
AfterHistory(chat_deleted) == IF chat_deleted THEN "continue" ELSE "500"

\* ------------------------------------------------------------------- state
VARIABLES
    objects,               \* object store: the keys present in the bucket
    collection_exists,     \* vector index: does collection "sudar-ai" exist
    points,                \* vector index: the points of the collection
    docs,                  \* checkpoint database: its documents
    messages,              \* message store: messages per chat identity
    pc,                    \* per call: where the handler is
    arg,                   \* per call: (user_id, chat_id)
    files_to_delete,       \* per call: listed objects not yet iterated
    files_count,           \* per call: len(files_to_delete) at listing
    messages_count,        \* per call
    embeddings_deleted,    \* per call
    checkpoints_deleted,   \* per call
    response,              \* per call: what the caller gets
    obs,                   \* per call: what the call did (observation only)
    prev,                  \* the response returned last: chat and status
    ncalls,                \* requests made so far
    nfaults,               \* store failures injected so far
    tags,                  \* object store: the tag set of each object
    up,                    \* per upload request: the handler's frame
    task,                  \* per ingestion task: the task's frame
    vs,                    \* the frame of a VectorService method call
    agent,                 \* agent lock and the send-message requests
    cs                     \* CheckpointService: the last two method calls

stores == <<objects, collection_exists, points, docs, messages>>
vars == <<objects, collection_exists, points, docs, messages, pc, arg,
          files_to_delete, files_count, messages_count, embeddings_deleted,
          checkpoints_deleted, response, obs, prev, ncalls, nfaults,
          tags, up, task, vs, agent, cs>>

\* What the delete-chat handler never touches.
beside == <<tags, up, task, vs, agent, cs>>

NoChat == Chat(Absent, Absent)
NoResponse == [status |-> "none", counts |-> NoCounts]
NoStores == [objects |-> {}, points |-> {}, docs |-> {},
             messages |-> [ch \in Chats |-> 0]]
NoObs == [start |-> NoStores,    \* the stores when the call started
          listed |-> {},         \* the objects the call listed
          attempted |-> {},      \* the objects whose removal was attempted
          failed_objs |-> {},    \* the objects whose removal failed
          removed |-> {},        \* the objects the call removed
          pts_removed |-> {},    \* the points the call removed
          docs_removed |-> {},   \* the documents the call removed
          failed |-> {},         \* the steps in which a store call failed
          aborted |-> FALSE,     \* delete_chat_checkpoints left through its outer except
          order |-> <<>>]        \* the steps completed, in order
NoPrev == [chat |-> NoChat, status |-> "none"]

\* Idle values of the frames beside delete_chat.
NoTags == <<>>
NoUploads == <<>>
NoTasks == <<>>
NoLast == [op |-> "none", user_id |-> Absent, chat_id |-> Absent, clean |-> FALSE]
NoVs == [pc |-> "idle", op |-> "none", user_id |-> Absent, chat_id |-> Absent,
         point_ids |-> {},      \* the ids the scroll returned
         ret |-> 0,             \* the value returned
         outcome |-> "none",    \* "returned" or "raised"
         calls |-> <<>>,        \* the client calls issued, in order
         failed |-> FALSE,      \* a client call raised
         existed |-> FALSE,     \* what collection_exists answered
         before |-> {},         \* the points when the method was called
         last |-> NoLast]       \* the method call that ended before this one
\* A CheckpointService method call not yet made.
NoCsCall == [op |-> "none",
             user_id |-> Absent,
             chat_id |-> Absent,
             thread_id |-> Absent,   \* the thread id the method built
             ret |-> 0,
             failed |-> FALSE,       \* a database call raised inside it
             before |-> {},          \* the documents when it was called
             after |-> {}]           \* the documents when it returned

NoCs == [last |-> NoCsCall, prev |-> NoCsCall]

\* A send-message request not yet made.
NoRequest == [pc |-> "idle",
              chat |-> NoChat,
              empty |-> FALSE,        \* payload.message.strip() is empty
              is_none |-> FALSE,      \* what "_agent_lock is None" gave
              agent_lock |-> 0,       \* the lock the dependency returned
              ctx |-> Absent,         \* user/chat context of the handler
              thread_ctx |-> Absent,  \* user/chat context of the executor thread
              chunks |-> 0,           \* AI messages stored by the turn
              waited |-> FALSE,       \* the handler was suspended at the lock
              outcome |-> "none",     \* how run_agent_interaction was left
              status |-> "none"]

\* Lock objects are numbered in the order asyncio.Lock() made them; 0 is None.
LockIds == 1..Cardinality(Calls)

NoAgent == [lock |-> 0,                            \* module global _agent_lock
            nlocks |-> 0,                          \* lock objects made so far
            held |-> [l \in LockIds |-> 0],        \* per lock: the holder, 0 if free
            waiters |-> [l \in LockIds |-> <<>>],  \* per lock: the waiting requests
            req |-> [c \in Calls |-> NoRequest]]

\* ------------------------------------------------------------ initial state
\* The documents a chat can own: tagged by thread id in a checkpoint
\* collection, by bare fields elsewhere, or by both.
Shapes(ch) ==
    LET t == ThreadId(ch.user_id, ch.chat_id)
    IN  {Doc("checkpoints", t, Absent, Absent),
         Doc("Checkpoint_writes", t, Absent, Absent),
         Doc("misc", Absent, ch.user_id, ch.chat_id),
         Doc("checkpoints", t, ch.user_id, ch.chat_id)}

SmallObjects(ch) == {ObjectKey(ch.user_id, ch.chat_id, "n1")}
SmallPoints(ch) == {Point(ch.user_id, ch.chat_id, 1)}
SmallDocs(ch) ==
    {Doc("checkpoints", ThreadId(ch.user_id, ch.chat_id), Absent, Absent),
     Doc("misc", Absent, ch.user_id, ch.chat_id)}

\* ChatA holds any content within the bounds; each other chat holds nothing
\* or one item of each kind.
InitStores ==
    \E n \in 0..MaxMsgs, names \in {{}, {"n1"}, FileNames}, k \in 0..MaxPts,
       dA \in SUBSET Shapes(ChatA), others \in {{}, {ChatB, ChatC}},
       ex \in BOOLEAN :
        /\ Cardinality(dA) <= MaxDocs
        /\ ex \/ (k = 0 /\ others = {})
        /\ messages = [ch \in Chats |->
                          IF ch = ChatA THEN n ELSE IF ch \in others THEN 1 ELSE 0]
        /\ objects = {ObjectKey(ChatA.user_id, ChatA.chat_id, nm) : nm \in names}
                     \cup UNION {SmallObjects(ch) : ch \in others}
        /\ collection_exists = ex
        /\ points = {Point(ChatA.user_id, ChatA.chat_id, i) : i \in 1..k}
                    \cup UNION {SmallPoints(ch) : ch \in others}
        /\ docs = dA \cup UNION {SmallDocs(ch) : ch \in others}

InitCalls ==
    /\ pc = [c \in Calls |-> "idle"]
    /\ arg = [c \in Calls |-> NoChat]
    /\ files_to_delete = [c \in Calls |-> {}]
    /\ files_count = [c \in Calls |-> 0]
    /\ messages_count = [c \in Calls |-> 0]
    /\ embeddings_deleted = [c \in Calls |-> 0]
    /\ checkpoints_deleted = [c \in Calls |-> 0]
    /\ response = [c \in Calls |-> NoResponse]
    /\ obs = [c \in Calls |-> NoObs]
    /\ prev = NoPrev
    /\ ncalls = 0
    /\ nfaults = 0

\* No upload, ingestion task, VectorService call or send-message request.
InitBeside ==
    /\ tags = NoTags
    /\ up = NoUploads
    /\ task = NoTasks
    /\ vs = NoVs
    /\ agent = NoAgent
    /\ cs = NoCs

Init == InitStores /\ InitCalls /\ InitBeside


\* -------------------------------------------------------- what a chat owns
\* The items of chat `ch` in the stores `st`: the objects under its prefix,
\* the points with its payload, the documents tagged with its thread id in a
\* checkpoint collection or with its bare fields anywhere, and its messages.
ItemsIn(st, ch) ==
    [objects |-> ListObjects(st.objects, Prefix(ch.user_id, ch.chat_id)),
     points |-> MatchingPoints(st.points, ch.user_id, ch.chat_id),
     docs |-> ThreadMatches(st.docs, CheckpointCollections,
                            ThreadId(ch.user_id, ch.chat_id))
              \cup FieldMatches(st.docs, CollectionNames, ch.user_id, ch.chat_id),
     messages |-> st.messages[ch]]

Now == [objects |-> objects, points |-> points, docs |-> docs, messages |-> messages]

ItemsOf(ch) == ItemsIn(Now, ch)

\* ------------------------------------------------------------ delete_chat
\* No other request is being served (and `call` is the first free slot).
Alone(call) == \A o \in Calls \ {call} : pc[o] = "idle" /\ call < o

Finish(call, resp) ==
    /\ response' = [response EXCEPT ![call] = resp]
    /\ pc' = [pc EXCEPT ![call] = "done"]

\* A DELETE /api/chats/{chat_id} request arrives.
Start(call) ==
    /\ UNCHANGED beside
    /\ pc[call] = "idle"
    /\ ncalls < MaxCalls
    /\ ncalls' = ncalls + 1
    /\ \E ch \in Chats :
        /\ arg' = [arg EXCEPT ![call] = ch]
        /\ obs' = [obs EXCEPT ![call] = [NoObs EXCEPT !.start = Now]]
    /\ pc' = [pc EXCEPT ![call] = "list"]
    /\ UNCHANGED <<stores, files_to_delete, files_count, messages_count,
                   embeddings_deleted, checkpoints_deleted, response, prev, nfaults>>

\* files_to_delete = list(list_objects(prefix)); files_count = len(...)
ListFiles(call) ==
    /\ UNCHANGED beside
    /\ pc[call] = "list"
    /\ LET found == ListObjects(objects, Prefix(arg[call].user_id, arg[call].chat_id))
       IN  /\ files_to_delete' = [files_to_delete EXCEPT ![call] = found]
           /\ files_count' = [files_count EXCEPT ![call] = Cardinality(found)]
           /\ obs' = [obs EXCEPT ![call].listed = found]
    /\ pc' = [pc EXCEPT ![call] = "count"]
    /\ UNCHANGED <<stores, arg, messages_count, embeddings_deleted,
                   checkpoints_deleted, response, prev, ncalls, nfaults>>

\* messages_count = len(getUserChat(...)); 404 when it is 0
CheckMessages(call) ==
    /\ UNCHANGED beside
    /\ pc[call] = "count"
    /\ LET n == GetUserChat(messages, arg[call])
       IN  /\ messages_count' = [messages_count EXCEPT ![call] = n]
           /\ IF PreconditionFails(n)
              THEN Finish(call, ErrorResponse("404"))
              ELSE /\ pc' = [pc EXCEPT ![call] = FirstStep]
                   /\ UNCHANGED response
    /\ UNCHANGED <<stores, arg, files_to_delete, files_count, embeddings_deleted,
                   checkpoints_deleted, obs, prev, ncalls, nfaults>>

RemoveKinds == {"ok", "S3Error", "OtherError"}

\* One iteration of: for file_obj in files_to_delete: remove_object(...)
\* (or leaving the loop when there is nothing to iterate).
RemoveObject(call) ==
    /\ UNCHANGED beside
    /\ pc[call] = "remove"
    /\ IF files_to_delete[call] = {}
       THEN /\ pc' = [pc EXCEPT ![call] = StepAfter("remove")]
            /\ obs' = [obs EXCEPT ![call].order = Append(@, "remove")]
            /\ UNCHANGED <<objects, files_to_delete, response, nfaults>>
       ELSE \E k \in files_to_delete[call], kind \in RemoveKinds :
            LET rest == files_to_delete[call] \ {k}
                o1 == [obs[call] EXCEPT !.attempted = @ \cup {k}]
            IN  /\ kind # "ok" => nfaults < MaxFaults
                /\ nfaults' = IF kind = "ok" THEN nfaults ELSE nfaults + 1
                /\ files_to_delete' = [files_to_delete EXCEPT ![call] = rest]
                /\ IF kind = "ok"
                   THEN /\ objects' = objects \ {k}
                        /\ obs' = [obs EXCEPT ![call] =
                                     [o1 EXCEPT !.removed = @ \cup ({k} \cap objects),
                                                !.order = IF rest = {}
                                                          THEN Append(@, "remove") ELSE @]]
                        /\ pc' = [pc EXCEPT ![call] =
                                     IF rest = {} THEN StepAfter("remove") ELSE "remove"]
                        /\ UNCHANGED response
                   ELSE IF CaughtInLoop(kind)
                   THEN /\ obs' = [obs EXCEPT ![call] =
                                     [o1 EXCEPT !.failed = @ \cup {"remove"},
                                                !.failed_objs = @ \cup {k},
                                                !.order = IF rest = {}
                                                          THEN Append(@, "remove") ELSE @]]
                        /\ pc' = [pc EXCEPT ![call] =
                                     IF rest = {} THEN StepAfter("remove") ELSE "remove"]
                        /\ UNCHANGED <<objects, response>>
                   ELSE /\ obs' = [obs EXCEPT ![call] =
                                     [o1 EXCEPT !.failed = @ \cup {"remove"},
                                                !.failed_objs = @ \cup {k}]]
                        /\ Finish(call, ErrorResponse("500"))
                        /\ UNCHANGED objects
    /\ UNCHANGED <<collection_exists, points, docs, messages, arg, files_count,
                   messages_count, embeddings_deleted, checkpoints_deleted, prev, ncalls>>

\* embeddings_deleted = vector_service.delete_chat_embeddings(user_id, chat_id)
DeleteEmbeddings(call) ==
    /\ UNCHANGED beside
    /\ pc[call] = "vector"
    /\ \E fails \in BOOLEAN :
        LET r == VectorDelete(collection_exists, points,
                              arg[call].user_id, arg[call].chat_id, fails)
        IN  /\ fails => nfaults < MaxFaults
            /\ nfaults' = IF fails THEN nfaults + 1 ELSE nfaults
            /\ points' = r.points
            /\ embeddings_deleted' = [embeddings_deleted EXCEPT ![call] = r.ret]
            /\ obs' = [obs EXCEPT ![call] =
                         [@ EXCEPT !.failed = IF fails THEN @ \cup {"vector"} ELSE @,
                                   !.pts_removed = points \ r.points,
                                   !.order = Append(@, "vector")]]
    /\ pc' = [pc EXCEPT ![call] = StepAfter("vector")]
    /\ UNCHANGED <<objects, collection_exists, docs, messages, arg, files_to_delete,
                   files_count, messages_count, checkpoints_deleted, response, prev, ncalls>>

\* checkpoints_deleted = checkpoint_service.delete_chat_checkpoints(user_id, chat_id)
DeleteCheckpoints(call) ==
    /\ UNCHANGED beside
    /\ pc[call] = "checkpoint"
    /\ \E plan \in CheckpointPlans :
        LET r == CheckpointDelete(docs, arg[call].user_id, arg[call].chat_id, plan)
            n == PlanFaults(plan)
        IN  /\ nfaults + n <= MaxFaults
            /\ nfaults' = nfaults + n
            /\ docs' = r.docs
            /\ checkpoints_deleted' = [checkpoints_deleted EXCEPT ![call] = r.ret]
            /\ obs' = [obs EXCEPT ![call] =
                         [@ EXCEPT !.failed = IF n > 0 THEN @ \cup {"checkpoint"} ELSE @,
                                   !.aborted = plan.kind # "none",
                                   !.docs_removed = docs \ r.docs,
                                   !.order = Append(@, "checkpoint")]]
    /\ pc' = [pc EXCEPT ![call] = StepAfter("checkpoint")]
    /\ UNCHANGED <<objects, collection_exists, points, messages, arg, files_to_delete,
                   files_count, messages_count, embeddings_deleted, response, prev, ncalls>>

\* chat_deleted = chat_service.deleteChatHistory(user_id, chat_id)
\* if not chat_deleted: raise HTTPException(500)
DeleteHistory(call) ==
    /\ UNCHANGED beside
    /\ pc[call] = "history"
    /\ \E fails \in BOOLEAN :
        LET r == DeleteChatHistory(messages, arg[call], fails)
        IN  /\ fails => nfaults < MaxFaults
            /\ nfaults' = IF fails THEN nfaults + 1 ELSE nfaults
            /\ messages' = r.messages
            /\ obs' = [obs EXCEPT ![call] =
                         [@ EXCEPT !.failed = IF fails THEN @ \cup {"history"} ELSE @,
                                   !.order = Append(@, "history")]]
            /\ IF AfterHistory(r.ret) = "500"
               THEN Finish(call, ErrorResponse("500"))
               ELSE /\ pc' = [pc EXCEPT ![call] = StepAfter("history")]
                    /\ UNCHANGED response
    /\ UNCHANGED <<objects, collection_exists, points, docs, arg, files_to_delete,
                   files_count, messages_count, embeddings_deleted,
                   checkpoints_deleted, prev, ncalls>>

\* return DeleteChatResponse(...)
Respond(call) ==
    /\ UNCHANGED beside
    /\ pc[call] = "respond"
    /\ Finish(call, SuccessResponse(files_count[call], messages_count[call],
                                    embeddings_deleted[call], checkpoints_deleted[call]))
    /\ UNCHANGED <<stores, arg, files_to_delete, files_count, messages_count,
                   embeddings_deleted, checkpoints_deleted, obs, prev, ncalls, nfaults>>

\* The response reaches the caller; the handler's frame is gone.
Return(call) ==
    /\ UNCHANGED beside
    /\ pc[call] = "done"
    /\ prev' = [chat |-> arg[call], status |-> response[call].status]
    /\ pc' = [pc EXCEPT ![call] = "idle"]
    /\ arg' = [arg EXCEPT ![call] = NoChat]
    /\ files_to_delete' = [files_to_delete EXCEPT ![call] = {}]
    /\ files_count' = [files_count EXCEPT ![call] = 0]
    /\ messages_count' = [messages_count EXCEPT ![call] = 0]
    /\ embeddings_deleted' = [embeddings_deleted EXCEPT ![call] = 0]
    /\ checkpoints_deleted' = [checkpoints_deleted EXCEPT ![call] = 0]
    /\ response' = [response EXCEPT ![call] = NoResponse]
    /\ obs' = [obs EXCEPT ![call] = NoObs]
    /\ UNCHANGED <<stores, ncalls, nfaults>>

StartAlone(call) == Alone(call) /\ Start(call)

\* Delete-chat calls one after the other, each running alone.
Next ==
    \E call \in Calls :
        \/ StartAlone(call)
        \/ ListFiles(call)
        \/ CheckMessages(call)
        \/ RemoveObject(call)
        \/ DeleteEmbeddings(call)
        \/ DeleteCheckpoints(call)
        \/ DeleteHistory(call)
        \/ Respond(call)
        \/ Return(call)

Spec == Init /\ [][Next]_vars


\* ================================================================== claims
Done(call) == pc[call] = "done"
Status(call) == response[call].status
Counts(call) == CHOOSE x \in response[call].counts : TRUE
StartItems(call) == ItemsIn(obs[call].start, arg[call])
Emptied == [objects |-> {}, points |-> {}, docs |-> {}, messages |-> 0]
Steps(call) == {obs[call].order[i] : i \in 1..Len(obs[call].order)}
IsPrefix(s, t) == Len(s) <= Len(t) /\ SubSeq(t, 1, Len(s)) = s

HoldingsCounts(call) ==
    [files |-> Cardinality(StartItems(call).objects),
     messages |-> StartItems(call).messages,
     embeddings |-> Cardinality(StartItems(call).points),
     checkpoints |-> Cardinality(StartItems(call).docs)]

C3_Original ==
    \A call \in Calls :
        (Done(call) /\ Status(call) = "ok") => ItemsOf(arg[call]) = Emptied

\* C3 amended: after a successful call running alone in which no store call
\* failed, for a chat of at most ScrollLimit points, nothing of the chat
\* remains in any store.
C3_NothingRemainsWithoutFailure ==
    \A call \in Calls :
        (/\ Done(call) /\ Status(call) = "ok"
         /\ obs[call].failed = {}
         /\ Cardinality(StartItems(call).points) <= ScrollLimit)
        => ItemsOf(arg[call]) = Emptied

\* C3 witness: a failure-free success for a chat that held items in all four stores.
C3_Witness ==
    \E call \in Calls :
        /\ Done(call) /\ Status(call) = "ok" /\ obs[call].failed = {}
        /\ StartItems(call).objects # {}
        /\ StartItems(call).points # {}
        /\ StartItems(call).docs # {}
        /\ ItemsOf(arg[call]) = Emptied

\* C4 as stated: while a call deletes chat A, the items of every other chat
\* identity B stay as they were.
C4_OtherChatsUntouched ==
    \A call \in Calls :
        pc[call] # "idle"
        => \A other \in Chats \ {arg[call]} :
               ItemsOf(other) = ItemsIn(obs[call].start, other)

C6_OthersStillRemoved ==
    \A call \in Calls :
        (Done(call) /\ Status(call) # "404")
        => /\ obs[call].attempted = obs[call].listed
           /\ (obs[call].listed \ obs[call].failed_objs) \cap objects = {}

\* C7 as stated: deleted_files_count of a success is the number of objects
\* the call removed.
C7_FilesCountIsRemoved ==
    \A call \in Calls :
        (Done(call) /\ Status(call) = "ok")
        => Counts(call).files = Cardinality(obs[call].removed)

C9_OnlyHistoryIsFatal ==
    \A call \in Calls :
        (Done(call) /\ Status(call) # "404")
        => /\ Status(call) = "500" => "history" \in obs[call].failed
           /\ Steps(call) = {"remove", "vector", "checkpoint", "history"}

C13_Original ==
    \A call \in Calls :
        "checkpoint" \in Steps(call)
        => checkpoints_deleted[call] = Cardinality(obs[call].docs_removed)

\* C13 amended: when delete_chat_checkpoints is not left through its outer
\* except, the integer it returns is the number of documents it removed, each
\* counted once; when it is, the integer is 0 whatever was removed.
C13_CountIsRemovedUnlessAborted ==
    \A call \in Calls :
        "checkpoint" \in Steps(call)
        => checkpoints_deleted[call] =
               IF obs[call].aborted THEN 0 ELSE Cardinality(obs[call].docs_removed)

\* C13 witness: a call that removed a document matching both ways and a
\* bare-field document and returned their number.
C13_Witness ==
    \E call \in Calls :
        /\ "checkpoint" \in Steps(call) /\ ~obs[call].aborted
        /\ \E d \in obs[call].docs_removed : d.thread_id # Absent /\ d.user_id # Absent
        /\ \E d \in obs[call].docs_removed : d.thread_id = Absent
        /\ checkpoints_deleted[call] = Cardinality(obs[call].docs_removed)


\* ============================================================ VectorService
\* The three methods of VectorService, client call by client call.
handler == <<pc, arg, files_to_delete, files_count, messages_count,
             embeddings_deleted, checkpoints_deleted, response, obs, prev>>

Users == {ch.user_id : ch \in Chats}

\* The method is left: through a return or through the except clause.
VsLeave(frame, outcome, ret) ==
    [frame EXCEPT !.pc = "left", !.outcome = outcome, !.ret = ret]

VsFail(frame, name) ==
    VsLeave([frame EXCEPT !.calls = Append(@, name), !.failed = TRUE],
            VsExcept.outcome, VsExcept.ret)

\* A method of VectorService is called.
VsCall ==
    /\ vs.pc = "idle"
    /\ ncalls < MaxCalls
    /\ ncalls' = ncalls + 1
    /\ \E op \in VsOps, ch \in Chats, whole \in BOOLEAN :
        /\ op = "delete_chat_embeddings" => ~whole
        /\ op = "delete_user_embeddings" => whole
        /\ vs' = [NoVs EXCEPT !.pc = "exists", !.op = op, !.user_id = ch.user_id,
                              !.chat_id = IF whole THEN Absent ELSE ch.chat_id,
                              !.before = points, !.last = vs.last]
    /\ UNCHANGED <<stores, handler, cs, nfaults, tags, up, task, agent>>

\* if not self.client.collection_exists(...): return 0
VsCollectionExists ==
    /\ vs.pc = "exists"
    /\ \E fails \in BOOLEAN :
        /\ fails => nfaults < MaxFaults
        /\ nfaults' = IF fails THEN nfaults + 1 ELSE nfaults
        /\ vs' = IF fails THEN VsFail(vs, "collection_exists")
                 ELSE LET f == [vs EXCEPT !.calls = Append(@, "collection_exists"),
                                          !.existed = collection_exists]
                      IN  IF collection_exists THEN [f EXCEPT !.pc = "scroll"]
                          ELSE VsLeave(f, "returned", 0)
    /\ UNCHANGED <<stores, handler, cs, ncalls, tags, up, task, agent>>

\* points_info = self.client.scroll(..., limit=...)
VsScroll ==
    /\ vs.pc = "scroll"
    /\ \E fails \in BOOLEAN :
        /\ fails => nfaults < MaxFaults
        /\ nfaults' = IF fails THEN nfaults + 1 ELSE nfaults
        /\ vs' = IF fails THEN VsFail(vs, "scroll")
                 ELSE LET m == VsFilter(points, vs.user_id, vs.chat_id)
                          f == [vs EXCEPT !.calls = Append(@, "scroll")]
                      IN  IF vs.op = "get_embeddings_count"
                          THEN [f EXCEPT !.pc = "count"]
                          ELSE LET ids == {q.id : q \in FirstPage(m, ScrollLimit)}
                               IN  IF ids = {}
                                   THEN VsLeave(f, "returned", 0)
                                   ELSE [f EXCEPT !.pc = "delete", !.point_ids = ids]
    /\ UNCHANGED <<stores, handler, cs, ncalls, tags, up, task, agent>>

\* self.client.delete(points_selector=point_ids); return points_count
VsDelete ==
    /\ vs.pc = "delete"
    /\ \E fails \in BOOLEAN :
        /\ fails => nfaults < MaxFaults
        /\ nfaults' = IF fails THEN nfaults + 1 ELSE nfaults
        /\ IF fails
           THEN /\ vs' = VsFail(vs, "delete")
                /\ UNCHANGED points
           ELSE /\ points' = {q \in points : q.id \notin vs.point_ids}
                /\ vs' = VsLeave([vs EXCEPT !.calls = Append(@, "delete")],
                                 "returned", Cardinality(vs.point_ids))
    /\ UNCHANGED <<objects, collection_exists, docs, messages, handler, cs, ncalls,
                   tags, up, task, agent>>

\* count_result = self.client.count(...); return count_result.count
VsCount ==
    /\ vs.pc = "count"
    /\ \E fails \in BOOLEAN :
        /\ fails => nfaults < MaxFaults
        /\ nfaults' = IF fails THEN nfaults + 1 ELSE nfaults
        /\ vs' = IF fails THEN VsFail(vs, "count")
                 ELSE VsLeave([vs EXCEPT !.calls = Append(@, "count")], "returned",
                              Cardinality(VsFilter(points, vs.user_id, vs.chat_id)))
    /\ UNCHANGED <<stores, handler, cs, ncalls, tags, up, task, agent>>

\* The caller has the value; the next call may begin.
VsDone ==
    /\ vs.pc = "left"
    /\ vs' = [NoVs EXCEPT !.last = [op |-> vs.op, user_id |-> vs.user_id,
                                    chat_id |-> vs.chat_id,
                                    clean |-> vs.existed /\ ~vs.failed]]
    /\ UNCHANGED <<stores, handler, cs, ncalls, nfaults, tags, up, task, agent>>

\* The vector index before the calls: ChatA holds up to MaxPts points, the
\* other chats none or one each; no collection, no points.
InitVec ==
    /\ \E k \in 0..MaxPts, others \in {{}, {ChatB, ChatC}}, ex \in BOOLEAN :
        /\ ex \/ (k = 0 /\ others = {})
        /\ collection_exists = ex
        /\ points = {Point(ChatA.user_id, ChatA.chat_id, i) : i \in 1..k}
                    \cup UNION {SmallPoints(ch) : ch \in others}
    /\ objects = {}
    /\ docs = {}
    /\ messages = [ch \in Chats |-> 0]
    /\ InitCalls
    /\ InitBeside

NextVec ==
    \/ VsCall
    \/ VsCollectionExists
    \/ VsScroll
    \/ VsDelete
    \/ VsCount
    \/ VsDone

SpecVec == InitVec /\ [][NextVec]_vars

VsLeft(ops) == vs.pc = "left" /\ vs.op \in ops
VsIssued == {vs.calls[i] : i \in 1..Len(vs.calls)}
VsDeleters == {"delete_chat_embeddings", "delete_user_embeddings"}

\* C11: delete_chat_embeddings and delete_user_embeddings never raise; when
\* the collection does not exist they return 0 having issued neither a scroll
\* nor a delete; when a client call fails they return 0.
C11_DeletersNeverRaise ==
    VsLeft(VsDeleters)
    => /\ vs.outcome = "returned"
       /\ (~vs.failed /\ ~vs.existed)
          => vs.ret = 0 /\ VsIssued = {"collection_exists"} /\ points = vs.before
       /\ vs.failed => vs.ret = 0

\* C11 witness: delete_user_embeddings has scrolled the points of two chats of
\* one user when its delete call fails.
C11_Witness ==
    /\ VsLeft({"delete_user_embeddings"})
    /\ vs.failed /\ "delete" \in VsIssued
    /\ \E q1, q2 \in points :
        /\ q1.chat_id # q2.chat_id
        /\ {q1.id, q2.id} \subseteq vs.point_ids

\* The points of the chat the method was called for, when it was called.
VsChatPointsBefore ==
    {q \in vs.before : q.user_id = vs.user_id /\ q.chat_id = vs.chat_id}

\* C12 as stated: on an existing collection delete_chat_embeddings run alone
\* removes the K matching points and only them and returns K.
C12_Original ==
    (VsLeft({"delete_chat_embeddings"}) /\ vs.existed)
    => /\ points = vs.before \ VsChatPointsBefore
       /\ vs.ret = Cardinality(VsChatPointsBefore)

\* C12 amended: on an existing collection, for at most ScrollLimit matching
\* points and with no client call failing, delete_chat_embeddings run alone
\* removes the K matching points and only them and returns K, and a
\* get_embeddings_count for the same chat that follows returns 0.
C12_RemovesAllWithoutFailure ==
    /\ (/\ VsLeft({"delete_chat_embeddings"}) /\ vs.existed /\ ~vs.failed
        /\ Cardinality(VsChatPointsBefore) <= ScrollLimit)
       => /\ points = vs.before \ VsChatPointsBefore
          /\ vs.ret = Cardinality(VsChatPointsBefore)
    /\ (/\ VsLeft({"get_embeddings_count"})
        /\ vs.last.op = "delete_chat_embeddings" /\ vs.last.clean
        /\ vs.last.user_id = vs.user_id /\ vs.last.chat_id = vs.chat_id)
       => /\ vs.ret = 0
          /\ VsChatPointsBefore = {}

\* C12 witness: the count that follows a deletion of several points, with
\* points of other chats still in the collection, has answered.
C12_Witness ==
    /\ VsLeft({"get_embeddings_count"}) /\ ~vs.failed
    /\ vs.last.op = "delete_chat_embeddings" /\ vs.last.clean
    /\ vs.last.user_id = vs.user_id /\ vs.last.chat_id = vs.chat_id
    /\ vs.chat_id = ChatA.chat_id
    /\ \E q \in points : q.user_id = vs.user_id
    /\ \A i \in 1..MaxPts : Point(ChatA.user_id, ChatA.chat_id, i) \notin points
    /\ collection_exists


\* ==================================================== upload and ingestion
\* upload_file and the background task _schedule_ingestion adds, running
\* beside delete_chat. ChunkDocument is not part of the sources at hand; it is
\* modelled from the specification: it reads the object, then writes the
\* object's points into the vector index, and either step can fail, the
\* second one leaving no point behind.

\* File names a client sends; the first two name the same object.
UploadNames == {"n1", "d/n1", "n 2"}

UploadChats == {ChatA}

\* Upload request slots; each gets one background task.
Uploads == {1, 2}

KeptChars == "0123456789abcdefghijklmnopqrstuvwxyzABCDEFGHIJKLMNOPQRSTUVWXYZ._-"

IsKept(c) == \E i \in 1..Len(KeptChars) : SubSeq(KeptChars, i, i) = c

\* The positions of character c in s.
Positions(s, c) == {i \in 1..Len(s) : SubSeq(s, i, i) = c}

Last(S) == CHOOSE i \in S : \A j \in S : j <= i

\* os.path.basename
Basename(filename) ==
    LET sl == Positions(filename, "/")
    IN  IF sl = {} THEN filename
        ELSE SubSeq(filename, Last(sl) + 1, Len(filename))

\* os.path.splitext: the extension starts at the last dot, unless only dots
\* precede it.
SplitAt(base) ==
    LET dots == Positions(base, ".")
    IN  IF dots = {} THEN Len(base) + 1
        ELSE IF \A j \in 1..(Last(dots) - 1) : SubSeq(base, j, j) = "."
             THEN Len(base) + 1
             ELSE Last(dots)

\* re.sub(r"[^0-9a-zA-Z._-]", "_", name)
RECURSIVE Replaced(_)
Replaced(name) ==
    IF Len(name) = 0 THEN name
    ELSE (IF IsKept(SubSeq(name, 1, 1)) THEN SubSeq(name, 1, 1) ELSE "_")
         \o Replaced(SubSeq(name, 2, Len(name)))

\* str.strip("._")
Stripped(name) ==
    LET keep == {i \in 1..Len(name) : SubSeq(name, i, i) \notin {".", "_"}}
    IN  IF keep = {} THEN ""
        ELSE SubSeq(name, CHOOSE i \in keep : \A j \in keep : i <= j, Last(keep))

\* _sanitize_filename
SanitizeFilename(filename) ==
    LET base == Basename(filename)
        cut == SplitAt(base)
        safe == Stripped(Replaced(SubSeq(base, 1, cut - 1)))
    IN  (IF safe = "" THEN "document" ELSE safe) \o SubSeq(base, cut, Len(base))

IngestKeys ==
    {ObjectKey(ch.user_id, ch.chat_id, SanitizeFilename(n)) :
        ch \in UploadChats, n \in UploadNames}

TagNames == {"user_id", "chat_id", "type", "status", "label"}

NoTagSet == [n \in TagNames |-> Absent]

\* A variant that stores the object as already indexed.
UploadTagsIndexed(user_id, chat_id) ==
    [NoTagSet EXCEPT !["user_id"] = user_id, !["chat_id"] = chat_id,
                     !["type"] = "UploadedDocument", !["status"] = "indexed"]

\* tags["user_id"] = user_id ... tags["status"] = "processing"
UploadTags(user_id, chat_id) ==
    [NoTagSet EXCEPT !["user_id"] = user_id, !["chat_id"] = chat_id,
                     !["type"] = "UploadedDocument", !["status"] = "processing"]

\* The points storeEmbeddings writes for one object (one chunk).
ChunkPoints(key, user_id, chat_id, t) ==
    {[id |-> <<key, "chunk", t>>, user_id |-> user_id, chat_id |-> chat_id]}

\* A variant in which the ingestion waits while the chat is being deleted.
StoreWaitsForDelete(deleting) == deleting

\* ingest() takes no lock: it never waits for a delete_chat in progress.
StoreWaits(deleting) == FALSE

\* A variant that marks a failed ingestion as indexed.
StatusOnFailureIndexed == "indexed"

\* except Exception: status_value = "error"
StatusOnFailure == "error"

\* except Exception: logger.exception("Failed to update ingestion status tags")
TagFailurePropagates == FALSE

\* A variant that writes the tags of an object that is gone.
TagWriteOnMissing(present) == TRUE

\* set_object_tags on an object that does not exist raises
TagWritePossible(present) == present

NoUpload == [pc |-> "idle", chat |-> NoChat, filename |-> Absent, empty |-> FALSE,
             key |-> Absent,
             status |-> "none",          \* what the caller gets
             wrote |-> FALSE,            \* put_object succeeded
             written |-> NoTagSet,       \* the tags put_object was given
             put_failed |-> FALSE,       \* put_object raised
             scheduled |-> 0,            \* tasks added to background_tasks
             did |-> <<>>,               \* the steps taken, in order
             task_at_respond |-> "none"] \* where the task was at the response

NoTask == [pc |-> "none", key |-> Absent, user_id |-> Absent, chat_id |-> Absent,
           ctx |-> Absent,              \* the task's user/chat context
           status_value |-> "indexed",
           ingest_failed |-> FALSE,     \* the except clause of the ingestion ran
           tag_dict |-> NoTagSet,       \* the tag set get_object_tags returned
           stored |-> {},               \* the points the task wrote
           missed |-> FALSE,            \* the object was gone at the read or write
           tag_failed |-> FALSE,        \* get_object_tags or set_object_tags raised
           tag_written |-> FALSE,       \* set_object_tags succeeded
           wrote_status |-> Absent,     \* the status in the tag set written
           raised |-> FALSE,            \* an exception left ingest()
           before_delete |-> FALSE,     \* the task began before any delete_chat
           after_vector |-> FALSE]      \* points written after a vector deletion

Tasks == Uploads

\* get_object_tags or set_object_tags raised; `gone`: the object was not there.
TagFailed(frame, gone) ==
    IF TagFailurePropagates
    THEN [frame EXCEPT !.pc = "ended", !.raised = TRUE, !.tag_failed = TRUE,
                       !.missed = @ \/ gone]
    ELSE [frame EXCEPT !.pc = "clear", !.tag_failed = TRUE, !.missed = @ \/ gone]

Deleting(user_id, chat_id) ==
    \E call \in Calls :
        /\ pc[call] \notin {"idle", "done"}
        /\ arg[call] = Chat(user_id, chat_id)

\* The handlers are coroutines of one event loop and call the stores without
\* awaiting: while one of them runs between two awaits no other handler runs.
\* The background tasks are plain functions, run by worker threads beside it.
LoopBusy ==
    \/ \E call \in Calls : pc[call] \notin {"idle", "done"}
    \/ \E u \in DOMAIN up : up[u].pc \notin {"idle", "done"}

\* A POST /api/files/upload request arrives; the filename and emptiness
\* checks are made and the key is built.
UpBegin(u) ==
    /\ up[u].pc = "idle"
    /\ ~LoopBusy
    /\ ncalls < MaxCalls
    /\ ncalls' = ncalls + 1
    /\ \E ch \in UploadChats, fn \in UploadNames \cup {Absent}, empty \in BOOLEAN :
        LET f == [NoUpload EXCEPT !.chat = ch, !.filename = fn, !.empty = empty]
        IN  up' = [up EXCEPT ![u] =
                IF fn = Absent
                THEN [f EXCEPT !.pc = "done", !.status = "400"]
                ELSE IF empty
                THEN [f EXCEPT !.pc = "done", !.status = "400",
                               !.key = ObjectKey(ch.user_id, ch.chat_id,
                                                 SanitizeFilename(fn))]
                ELSE [f EXCEPT !.pc = "put",
                               !.key = ObjectKey(ch.user_id, ch.chat_id,
                                                 SanitizeFilename(fn))]]
    /\ UNCHANGED <<stores, handler, cs, nfaults, tags, task, vs, agent>>

\* minio_client.put_object(..., tags=tags); S3Error gives 500, any other
\* exception leaves the handler.
UpPut(u) ==
    /\ up[u].pc = "put"
    /\ \E fails \in BOOLEAN :
        /\ fails => nfaults < MaxFaults
        /\ nfaults' = IF fails THEN nfaults + 1 ELSE nfaults
        /\ IF fails
           THEN /\ up' = [up EXCEPT ![u] = [@ EXCEPT !.pc = "done", !.status = "500",
                                                     !.put_failed = TRUE]]
                /\ UNCHANGED <<objects, tags>>
           ELSE LET t == UploadTags(up[u].chat.user_id, up[u].chat.chat_id)
                IN  /\ objects' = objects \cup {up[u].key}
                    /\ tags' = [tags EXCEPT ![up[u].key] = t]
                    /\ up' = [up EXCEPT ![u] = [@ EXCEPT !.pc = "schedule",
                                                         !.wrote = TRUE,
                                                         !.written = t,
                                                         !.did = Append(@, "put")]]
    /\ UNCHANGED <<collection_exists, points, docs, messages, handler, cs, ncalls,
                   task, vs, agent>>

\* _schedule_ingestion(background_tasks, object_key, user_id, chat_id)
UpSchedule(u) ==
    /\ up[u].pc = "schedule"
    /\ up' = [up EXCEPT ![u] = [@ EXCEPT !.pc = "respond", !.scheduled = @ + 1,
                                         !.did = Append(@, "schedule")]]
    /\ task' = [task EXCEPT ![u] = [NoTask EXCEPT !.pc = "scheduled",
                                                  !.key = up[u].key,
                                                  !.user_id = up[u].chat.user_id,
                                                  !.chat_id = up[u].chat.chat_id]]
    /\ UNCHANGED <<stores, handler, cs, ncalls, nfaults, tags, vs, agent>>

\* return UploadResponse(..., status="processing")
UpRespond(u) ==
    /\ up[u].pc = "respond"
    /\ up' = [up EXCEPT ![u] = [@ EXCEPT !.pc = "done", !.status = "processing",
                                         !.did = Append(@, "respond"),
                                         !.task_at_respond = task[u].pc]]
    /\ UNCHANGED <<stores, handler, cs, ncalls, nfaults, tags, task, vs, agent>>

\* The background task starts once the response is sent:
\* set_user_chat_context(user_id, chat_id)
TaskStart(t) ==
    /\ task[t].pc = "scheduled"
    /\ up[t].pc = "done"
    /\ task' = [task EXCEPT ![t] = [@ EXCEPT !.pc = "parse",
                                             !.ctx = <<task[t].user_id, task[t].chat_id>>,
                                             !.before_delete =
                                                 /\ prev = NoPrev
                                                 /\ \A call \in Calls :
                                                        pc[call] = "idle"]]
    /\ UNCHANGED <<stores, handler, cs, ncalls, nfaults, tags, up, vs, agent>>

\* chunker = ChunkDocument(object_key); parseDocument(); initializeEmbeddings()
\* It fails when the object is gone or when a call raises: status_value = "error".
TaskParse(t) ==
    /\ task[t].pc = "parse"
    /\ \E fails \in BOOLEAN :
        /\ fails => nfaults < MaxFaults
        /\ nfaults' = IF fails THEN nfaults + 1 ELSE nfaults
        /\ task' = [task EXCEPT ![t] =
                IF fails \/ task[t].key \notin objects
                THEN [@ EXCEPT !.pc = "read_tags", !.status_value = StatusOnFailure,
                               !.ingest_failed = TRUE]
                ELSE [@ EXCEPT !.pc = "store"]]
    /\ UNCHANGED <<stores, handler, cs, ncalls, tags, up, vs, agent>>

\* chunker.storeEmbeddings()
TaskStore(t) ==
    /\ task[t].pc = "store"
    /\ ~StoreWaits(Deleting(task[t].user_id, task[t].chat_id))
    /\ \E fails \in BOOLEAN :
        /\ fails => nfaults < MaxFaults
        /\ nfaults' = IF fails THEN nfaults + 1 ELSE nfaults
        /\ IF fails
           THEN /\ task' = [task EXCEPT ![t] = [@ EXCEPT !.pc = "read_tags",
                                                         !.status_value = StatusOnFailure,
                                                         !.ingest_failed = TRUE]]
                /\ UNCHANGED points
           ELSE LET new == ChunkPoints(task[t].key, task[t].user_id, task[t].chat_id, t)
                IN  /\ points' = points \cup new
                    /\ task' = [task EXCEPT ![t] =
                            [@ EXCEPT !.pc = "read_tags", !.stored = new,
                                      !.after_vector =
                                          \E call \in Calls :
                                              /\ arg[call] = Chat(task[t].user_id, task[t].chat_id)
                                              /\ "vector" \in Steps(call)
                                              /\ pc[call] # "done"]]
    /\ UNCHANGED <<objects, collection_exists, docs, messages, handler, cs, ncalls,
                   tags, up, vs, agent>>

\* existing_tags = minio_client.get_object_tags(...); tag_dict = ...
TaskReadTags(t) ==
    /\ task[t].pc = "read_tags"
    /\ \E fails \in BOOLEAN :
        /\ fails => nfaults < MaxFaults
        /\ nfaults' = IF fails THEN nfaults + 1 ELSE nfaults
        /\ task' = [task EXCEPT ![t] =
                IF task[t].key \notin objects
                THEN TagFailed(task[t], TRUE)
                ELSE IF fails
                THEN TagFailed(task[t], FALSE)
                ELSE [@ EXCEPT !.pc = "write_tags", !.tag_dict = tags[task[t].key]]]
    /\ UNCHANGED <<stores, handler, cs, ncalls, tags, up, vs, agent>>

\* tag_dict["status"] = status_value; minio_client.set_object_tags(...)
TaskWriteTags(t) ==
    /\ task[t].pc = "write_tags"
    /\ \E fails \in BOOLEAN :
        /\ fails => nfaults < MaxFaults
        /\ nfaults' = IF fails THEN nfaults + 1 ELSE nfaults
        /\ IF ~TagWritePossible(task[t].key \in objects)
           THEN /\ task' = [task EXCEPT ![t] = TagFailed(task[t], TRUE)]
                /\ UNCHANGED <<objects, tags>>
           ELSE IF fails
           THEN /\ task' = [task EXCEPT ![t] = TagFailed(task[t], FALSE)]
                /\ UNCHANGED <<objects, tags>>
           ELSE \* the tag set replaces the one of the object, which is there
                /\ tags' = [tags EXCEPT ![task[t].key] =
                               [task[t].tag_dict EXCEPT !["status"] = task[t].status_value]]
                /\ objects' = objects \cup {task[t].key}
                /\ task' = [task EXCEPT ![t] = [@ EXCEPT !.pc = "clear",
                                                         !.missed = @ \/ task[t].key \notin objects,
                                                         !.tag_written = TRUE,
                                                         !.wrote_status = task[t].status_value]]
    /\ UNCHANGED <<collection_exists, points, docs, messages, handler, cs, ncalls,
                   up, vs, agent>>

\* clear_user_chat_context(); ingest() returns
TaskClear(t) ==
    /\ task[t].pc = "clear"
    /\ task' = [task EXCEPT ![t] = [@ EXCEPT !.pc = "ended", !.ctx = Absent]]
    /\ UNCHANGED <<stores, handler, cs, ncalls, nfaults, tags, up, vs, agent>>

StartOnLoop(call) == ~LoopBusy /\ StartAlone(call)

\* Another client of the object store sets a tag of its own on an object:
\* it reads the tag set, adds its tag and writes the set back.
OtherTagWrite ==
    /\ ncalls < MaxCalls
    /\ ncalls' = ncalls + 1
    /\ \E k \in objects :
        /\ tags[k]["label"] = Absent
        /\ tags' = [tags EXCEPT ![k]["label"] = "kept"]
    /\ UNCHANGED <<stores, handler, cs, nfaults, up, task, vs, agent>>

\* Chat ChatA exists with one message of its own; nothing is uploaded yet.
InitIngest ==
    /\ objects = {}
    /\ collection_exists = TRUE
    /\ points = {}
    /\ docs = {}
    /\ messages = [ch \in Chats |-> IF ch \in UploadChats THEN MaxMsgs ELSE 0]
    /\ InitCalls
    /\ tags = [k \in IngestKeys |-> NoTagSet]
    /\ up = [u \in Uploads |-> NoUpload]
    /\ task = [t \in Tasks |-> NoTask]
    /\ vs = NoVs
    /\ agent = NoAgent
    /\ cs = NoCs

NextIngest ==
    \/ \E u \in Uploads :
        \/ UpBegin(u)
        \/ UpPut(u)
        \/ UpSchedule(u)
        \/ UpRespond(u)
    \/ \E t \in Tasks :
        \/ TaskStart(t)
        \/ TaskParse(t)
        \/ TaskStore(t)
        \/ TaskReadTags(t)
        \/ TaskWriteTags(t)
        \/ TaskClear(t)
    \/ OtherTagWrite

\* Uploads, their ingestion tasks and another tag writer.
SpecIngest == InitIngest /\ [][NextIngest]_vars

\* One upload slot beside the delete_chat calls.
RaceUploads == {1}

InitRace ==
    /\ objects = {}
    /\ collection_exists = TRUE
    /\ points = {}
    /\ docs = {}
    /\ messages = [ch \in Chats |-> IF ch \in UploadChats THEN MaxMsgs ELSE 0]
    /\ InitCalls
    /\ tags = [k \in IngestKeys |-> NoTagSet]
    /\ up = [u \in RaceUploads |-> NoUpload]
    /\ task = [t \in RaceUploads |-> NoTask]
    /\ vs = NoVs
    /\ agent = NoAgent
    /\ cs = NoCs

NextRace ==
    \/ \E u \in RaceUploads :
        \/ UpBegin(u)
        \/ UpPut(u)
        \/ UpSchedule(u)
        \/ UpRespond(u)
    \/ \E t \in RaceUploads :
        \/ TaskStart(t)
        \/ TaskParse(t)
        \/ TaskStore(t)
        \/ TaskReadTags(t)
        \/ TaskWriteTags(t)
        \/ TaskClear(t)
    \/ \E call \in Calls :
        \/ StartOnLoop(call)
        \/ ListFiles(call)
        \/ CheckMessages(call)
        \/ RemoveObject(call)
        \/ DeleteEmbeddings(call)
        \/ DeleteCheckpoints(call)
        \/ DeleteHistory(call)
        \/ Respond(call)
        \/ Return(call)

\* An upload and its ingestion task beside delete_chat calls.
SpecRace == InitRace /\ [][NextRace]_vars

Ended(t) == task[t].pc \in {"clear", "ended"}

\* C14 as stated: the status tag of an object only moves from processing to
\* indexed or to error, and never changes once it is indexed or error.
C14_StatusOnlyForward ==
    [][\A k \in objects \cap objects' :
          tags[k]["status"] # tags'[k]["status"]
          => /\ tags[k]["status"] = "processing"
             /\ tags'[k]["status"] \in {"indexed", "error"}]_vars

C16_UploadContract ==
    \A u \in DOMAIN up :
        up[u].pc = "done"
        => IF up[u].filename = Absent \/ up[u].empty \/ up[u].put_failed
           THEN /\ up[u].status \in {"400", "500"}
                /\ ~up[u].wrote
                /\ up[u].scheduled = 0
                /\ task[u].pc = "none"
           ELSE /\ up[u].status = "processing"
                /\ up[u].wrote
                /\ up[u].key = (CASE up[u].filename = "n1" -> "a/b_c/n1"
                                  [] up[u].filename = "d/n1" -> "a/b_c/n1"
                                  [] up[u].filename = "n 2" -> "a/b_c/n_2")
                /\ up[u].written = [user_id |-> "a", chat_id |-> "b_c",
                                    type |-> "UploadedDocument",
                                    status |-> "processing", label |-> Absent]
                /\ up[u].scheduled = 1
                /\ up[u].did = <<"put", "schedule", "respond">>
                /\ up[u].task_at_respond = "scheduled"
                /\ task[u].key = up[u].key

\* C16 witness: an upload of a name that needed sanitising has answered and
\* its task is not finished.
C16_Witness ==
    \E u \in DOMAIN up :
        /\ up[u].pc = "done" /\ up[u].status = "processing"
        /\ up[u].filename = "n 2"
        /\ task[u].pc \in {"scheduled", "parse", "store"}

\* C17 as stated: when the task writes the tag set back, every tag other
\* than status keeps the value the object carried just before that write.
C17_WriteKeepsOtherTags ==
    [][\A t \in DOMAIN task :
          (task[t].pc = "write_tags" /\ task'[t].tag_written)
          => \A n \in TagNames \ {"status"} :
                 tags'[task[t].key][n] = tags[task[t].key][n]]_vars

\* C18: when the object is gone at the task's tag read or tag write, the
\* tag update fails and writes nothing, no exception leaves the task, the
\* object is not there again, and the task goes on to clear its context
\* and end.
C18_TagUpdateAfterRemoval ==
    \A t \in DOMAIN task :
        (Ended(t) /\ task[t].missed)
        => /\ task[t].tag_failed /\ ~task[t].tag_written
           /\ ~task[t].raised
           /\ task[t].key \notin objects
           /\ task[t].pc = "clear" => ENABLED TaskClear(t)
           /\ task[t].pc = "ended" => task[t].ctx = Absent

\* C18 witness: the object was removed by delete_chat between the task's tag
\* read and its tag write, and the task has ended.
C18_Witness ==
    \E t \in DOMAIN task :
        /\ task[t].pc = "ended" /\ task[t].missed
        /\ task[t].tag_dict # NoTagSet
        /\ \E call \in Calls : task[t].key \in obs[call].removed

\* C19: nothing makes the ingestion wait for a delete_chat in progress: a
\* task that is about to write its points can always do so.
C19_StoreNeverWaits ==
    \A t \in DOMAIN task : task[t].pc = "store" => ENABLED TaskStore(t)

\* C19 witness: delete_chat for the chat has answered success, its vector
\* deletion met no failure, and points of the chat written after that
\* deletion by a task begun before the call are in the index.
C19_Witness ==
    \E call \in Calls, t \in DOMAIN task :
        /\ Done(call) /\ Status(call) = "ok"
        /\ "vector" \notin obs[call].failed
        /\ arg[call] = Chat(task[t].user_id, task[t].chat_id)
        /\ task[t].before_delete /\ task[t].after_vector
        /\ task[t].stored # {} /\ task[t].stored \subseteq points
        /\ MatchingPoints(points, arg[call].user_id, arg[call].chat_id) # {}

\* ------------------------------------------------------------ send-message
\* POST /api/chats/{chat_id}/messages.  The dependency get_agent_lock is a
\* plain function, which the framework runs in a worker thread before the
\* handler; the handler runs on the event loop; run_agent_interaction runs
\* in an executor thread.

MaxChunks == 1    \* AI messages one agent turn stores

\* get_default_user_id gives one user; the chat id comes with the request.
AgentChats == {ChatA, ChatC}

SetReq(c, r) == [agent EXCEPT !.req[c] = r]

\* if _agent_lock is None
LockIsNone(lock) == lock = 0

\* The handler's context when it is left before the lock: get_compiled_agent
\* raises before set_user_chat_context; after a failed insertHumanMessage
\* the except clause calls clear_user_chat_context.
ContextAfterFailure(r, fails) ==
    IF fails = "get_compiled_agent" THEN r.ctx ELSE Absent

\* A variant that keeps the lock when the turn raised.
HolderAfterExitKeptOnRaise(c, outcome) == IF outcome = "raised" THEN c ELSE 0

\* Leaving "async with agent_lock", by return or by exception, releases the
\* lock: it has no holder afterwards.
HolderAfterExit(c, outcome) == 0

\* asyncio.Lock.acquire without suspending: the lock is free and nobody waits.
LockFree(l) == agent.held[l] = 0 /\ agent.waiters[l] = <<>>

\* The executor thread of the request is inside run_agent_interaction.
InTurn(c) == agent.req[c].pc = "turn"

\* A request arrives; its dependencies are resolved first.
SmRequest(c) ==
    /\ agent.req[c].pc = "idle"
    /\ ncalls < MaxCalls
    /\ ncalls' = ncalls + 1
    /\ \E ch \in AgentChats, empty \in BOOLEAN :
        agent' = SetReq(c, [NoRequest EXCEPT !.pc = "lock_check", !.chat = ch,
                                             !.empty = empty])
    /\ UNCHANGED <<stores, handler, cs, nfaults, tags, up, task, vs>>

\* get_agent_lock: if _agent_lock is None
GetAgentLockCheck(c) ==
    /\ agent.req[c].pc = "lock_check"
    /\ LET none == LockIsNone(agent.lock)
       IN  agent' = SetReq(c, [agent.req[c] EXCEPT
                                  !.pc = IF none THEN "lock_create" ELSE "lock_return",
                                  !.is_none = none])
    /\ UNCHANGED <<stores, handler, cs, ncalls, nfaults, tags, up, task, vs>>

\* get_agent_lock: _agent_lock = asyncio.Lock()
GetAgentLockCreate(c) ==
    /\ agent.req[c].pc = "lock_create"
    /\ agent' = [agent EXCEPT !.nlocks = @ + 1,
                              !.lock = agent.nlocks + 1,
                              !.req[c].pc = "lock_return"]
    /\ UNCHANGED <<stores, handler, cs, ncalls, nfaults, tags, up, task, vs>>

\* get_agent_lock: return _agent_lock
GetAgentLockReturn(c) ==
    /\ agent.req[c].pc = "lock_return"
    /\ agent' = SetReq(c, [agent.req[c] EXCEPT !.pc = "handler",
                                               !.agent_lock = agent.lock])
    /\ UNCHANGED <<stores, handler, cs, ncalls, nfaults, tags, up, task, vs>>

\* send_message_to_agent up to "async with agent_lock": the empty-message
\* check, set_user_chat_context, insertHumanMessage, and the attempt to take
\* the lock, which suspends the handler when the lock is not free.
SmBegin(c) ==
    /\ agent.req[c].pc = "handler"
    /\ LET r == agent.req[c]
           l == r.agent_lock
       IN  IF r.empty
           THEN /\ agent' = SetReq(c, [r EXCEPT !.pc = "done", !.status = "400"])
                /\ UNCHANGED <<messages, nfaults>>
           ELSE \E fails \in {"none", "get_compiled_agent", "insertHumanMessage"} :
                /\ fails # "none" => nfaults < MaxFaults
                /\ nfaults' = IF fails # "none" THEN nfaults + 1 ELSE nfaults
                /\ IF fails # "none"
                   THEN /\ agent' = SetReq(c, [r EXCEPT !.pc = "done", !.status = "500",
                                                        !.ctx = ContextAfterFailure(r, fails)])
                        /\ UNCHANGED messages
                   ELSE /\ messages' = [messages EXCEPT ![r.chat] = @ + 1]
                        /\ agent' =
                            IF LockFree(l)
                            THEN [agent EXCEPT
                                    !.held[l] = c,
                                    !.req[c] = [r EXCEPT !.pc = "submitted",
                                                         !.ctx = <<r.chat.user_id, r.chat.chat_id>>]]
                            ELSE [agent EXCEPT
                                    !.waiters[l] = Append(@, c),
                                    !.req[c] = [r EXCEPT !.pc = "waiting",
                                                         !.waited = TRUE,
                                                         !.ctx = <<r.chat.user_id, r.chat.chat_id>>]]
    /\ UNCHANGED <<objects, collection_exists, points, docs, handler, cs, ncalls,
                   tags, up, task, vs>>

\* The first waiter of a released lock takes it and submits its turn.
SmLockWake(c) ==
    /\ agent.req[c].pc = "waiting"
    /\ LET l == agent.req[c].agent_lock
       IN  /\ agent.held[l] = 0
           /\ agent.waiters[l] # <<>>
           /\ Head(agent.waiters[l]) = c
           /\ agent' = [agent EXCEPT !.held[l] = c,
                                     !.waiters[l] = Tail(@),
                                     !.req[c].pc = "submitted"]
    /\ UNCHANGED <<stores, handler, cs, ncalls, nfaults, tags, up, task, vs>>

\* run_agent_interaction begins in an executor thread.
TurnStart(c) ==
    /\ agent.req[c].pc = "submitted"
    /\ agent' = SetReq(c, [agent.req[c] EXCEPT
                              !.pc = "turn",
                              !.thread_ctx = <<agent.req[c].chat.user_id,
                                               agent.req[c].chat.chat_id>>])
    /\ UNCHANGED <<stores, handler, cs, ncalls, nfaults, tags, up, task, vs>>

\* One chunk of compiled_agent.stream is stored with insertAIMessage.
TurnChunk(c) ==
    /\ InTurn(c)
    /\ agent.req[c].chunks < MaxChunks
    /\ messages' = [messages EXCEPT ![agent.req[c].chat] = @ + 1]
    /\ agent' = SetReq(c, [agent.req[c] EXCEPT !.chunks = @ + 1])
    /\ UNCHANGED <<objects, collection_exists, points, docs, handler, cs, ncalls,
                   nfaults, tags, up, task, vs>>

\* run_agent_interaction is left, by return or by an exception of the
\* stream or of insertAIMessage; its finally clause clears the context.
TurnLeave(c) ==
    /\ InTurn(c)
    /\ \E fails \in BOOLEAN :
        /\ fails => nfaults < MaxFaults
        /\ nfaults' = IF fails THEN nfaults + 1 ELSE nfaults
        /\ agent' = SetReq(c, [agent.req[c] EXCEPT
                                  !.pc = "turn_left",
                                  !.outcome = IF fails THEN "raised" ELSE "returned",
                                  !.thread_ctx = Absent])
    /\ UNCHANGED <<stores, handler, cs, ncalls, tags, up, task, vs>>

\* The handler resumes after run_in_executor: the lock is released on
\* leaving "async with", the outer finally clears the context, and the
\* handler answers.
SmFinish(c) ==
    /\ agent.req[c].pc = "turn_left"
    /\ LET r == agent.req[c]
       IN  agent' = [agent EXCEPT
                        !.held[r.agent_lock] = HolderAfterExit(c, r.outcome),
                        !.req[c] = [r EXCEPT !.pc = "done",
                                             !.ctx = Absent,
                                             !.status = IF r.outcome = "raised"
                                                        THEN "500" ELSE "200"]]
    /\ UNCHANGED <<stores, handler, cs, ncalls, nfaults, tags, up, task, vs>>

InitAgent ==
    /\ objects = {}
    /\ collection_exists = TRUE
    /\ points = {}
    /\ docs = {}
    /\ \E n \in 0..MaxMsgs : messages = [ch \in Chats |-> IF ch = ChatA THEN n ELSE 0]
    /\ InitCalls
    /\ InitBeside

NextAgent ==
    \/ \E c \in Calls : SmRequest(c)
    \/ \E c \in Calls : GetAgentLockCheck(c)
    \/ \E c \in Calls : GetAgentLockCreate(c)
    \/ \E c \in Calls : GetAgentLockReturn(c)
    \/ \E c \in Calls : SmBegin(c)
    \/ \E c \in Calls : SmLockWake(c)
    \/ \E c \in Calls : TurnStart(c)
    \/ \E c \in Calls : TurnChunk(c)
    \/ \E c \in Calls : TurnLeave(c)
    \/ \E c \in Calls : SmFinish(c)

SpecAgent == InitAgent /\ [][NextAgent]_vars

\* The event loop resumes every handler that can go on, and the executor runs
\* every turn submitted to it and every turn comes to its end.
FairAgent ==
    \A c \in Calls :
        /\ WF_vars(SmLockWake(c))
        /\ WF_vars(TurnStart(c))
        /\ WF_vars(TurnLeave(c))
        /\ WF_vars(SmFinish(c))

SpecAgentFair == InitAgent /\ [][NextAgent]_vars /\ FairAgent

\* C20 as stated: at every moment at most one agent turn is executing,
\* whatever the number of send-message requests in progress.
C20_OneTurnAtATime ==
    Cardinality({c \in Calls : InTurn(c)}) <= 1

\* ------------------------------------------------------- CheckpointService
\* The methods of CheckpointService called one after the other on a database
\* that holds records of several chat identities.

\* The identities the methods are called with; the last has an empty chat id.
CsIdents == {ChatA, ChatB, ChatC, Chat("a", "")}

\* The records of a chat that carry its user_id and chat_id fields.
OwnedDocs(ch) == {d \in Shapes(ch) : d.user_id = ch.user_id /\ d.chat_id = ch.chat_id}

CsRecord(op, ch, ret, failed, after) ==
    [op |-> op, user_id |-> ch.user_id, chat_id |-> ch.chat_id,
     thread_id |-> ThreadId(ch.user_id, ch.chat_id),
     ret |-> ret, failed |-> failed, before |-> docs, after |-> after]

\* get_checkpoint_count(user_id, chat_id)
CsGetCheckpointCount ==
    /\ ncalls < MaxCalls
    /\ ncalls' = ncalls + 1
    /\ \E ch \in CsIdents, fails \in BOOLEAN :
        /\ fails => nfaults < MaxFaults
        /\ nfaults' = IF fails THEN nfaults + 1 ELSE nfaults
        /\ LET r == CheckpointCount(docs, ch.user_id, ch.chat_id, fails)
           IN  /\ docs' = r.docs
               /\ cs' = [last |-> CsRecord("get_checkpoint_count", ch, r.ret,
                                           fails, r.docs),
                         prev |-> cs.last]
    /\ UNCHANGED <<objects, collection_exists, points, messages, handler,
                   tags, up, task, vs, agent>>

\* delete_chat_checkpoints(user_id, chat_id)
CsDeleteChatCheckpoints ==
    /\ ncalls < MaxCalls
    /\ ncalls' = ncalls + 1
    /\ \E ch \in CsIdents, plan \in CheckpointPlans :
        /\ nfaults + PlanFaults(plan) <= MaxFaults
        /\ nfaults' = nfaults + PlanFaults(plan)
        /\ LET r == CheckpointDelete(docs, ch.user_id, ch.chat_id, plan)
           IN  /\ docs' = r.docs
               /\ cs' = [last |-> CsRecord("delete_chat_checkpoints", ch, r.ret,
                                           PlanFaults(plan) > 0, r.docs),
                         prev |-> cs.last]
    /\ UNCHANGED <<objects, collection_exists, points, messages, handler,
                   tags, up, task, vs, agent>>

InitCs ==
    /\ \E dA \in SUBSET Shapes(ChatA), others \in {{}, {ChatB, ChatC}} :
        /\ Cardinality(dA) <= MaxDocs
        /\ docs = dA \cup UNION {OwnedDocs(ch) : ch \in others}
    /\ objects = {}
    /\ collection_exists = TRUE
    /\ points = {}
    /\ messages = [ch \in Chats |-> 0]
    /\ InitCalls
    /\ InitBeside

NextCs ==
    \/ CsGetCheckpointCount
    \/ CsDeleteChatCheckpoints

SpecCs == InitCs /\ [][NextCs]_vars

\* Chat identities whose components contain no "_".
PlainParts == {"a", "b", "c", "ab", "bc"}
PlainIdents == {Chat(u, c) : u \in PlainParts, c \in PlainParts}

CsDeleted(rec) ==
    rec.op = "delete_chat_checkpoints" /\ ~rec.failed

CsCounted(rec) ==
    rec.op = "get_checkpoint_count" /\ ~rec.failed

\* C21: the thread id is user_id, "_" and chat_id put together; no two
\* identities without "_" in their components share a thread id; ("a","b_c")
\* and ("a_b","c") share the thread id "a_b_c", and after
\* delete_chat_checkpoints for one of the two has returned without failure
\* no record tagged with the other's thread id is left in a checkpoint
\* collection.
C21_ThreadIdCollision ==
    /\ \A x \in PlainIdents, y \in PlainIdents :
          ThreadId(x.user_id, x.chat_id) = ThreadId(y.user_id, y.chat_id) => x = y
    /\ ThreadId("a", "b_c") = "a_b_c" /\ ThreadId("a_b", "c") = "a_b_c"
    /\ cs.last.op # "none"
       => cs.last.thread_id = cs.last.user_id \o "_" \o cs.last.chat_id
    /\ \A x \in {ChatA, ChatB}, y \in {ChatA, ChatB} :
          (CsDeleted(cs.last) /\ Chat(cs.last.user_id, cs.last.chat_id) = x /\ y # x)
          => /\ ThreadMatches(docs, CheckpointCollections,
                              ThreadId(y.user_id, y.chat_id)) = {}
             /\ \A d \in OwnedDocs(y) \cap cs.last.before :
                   d.coll \in CheckpointCollections => d \notin docs

\* C21 witness: delete_chat_checkpoints for ("a","b_c") has returned without
\* failure and a thread-id-tagged record carrying the fields of ("a_b","c")
\* that was there before is gone.
C21_Witness ==
    /\ CsDeleted(cs.last)
    /\ Chat(cs.last.user_id, cs.last.chat_id) = ChatA
    /\ \E d \in OwnedDocs(ChatB) \cap cs.last.before :
          d.coll \in CheckpointCollections /\ d \notin docs

CsSameChat(r1, r2) == r1.user_id = r2.user_id /\ r1.chat_id = r2.chat_id

\* The records of a call's database that the thread-id match in the
\* checkpoint collections finds, and those only the bare fields find.
CsThreadTagged(rec) ==
    ThreadMatches(rec.before, CheckpointCollections,
                  rec.user_id \o "_" \o rec.chat_id)

CsBareOnly(rec) ==
    FieldMatches(rec.before, CollectionNames, rec.user_id, rec.chat_id)
        \ CsThreadTagged(rec)

\* What C22 says of a count, of a delete made right after a count, and of a
\* count made right after a delete, for the calls selected by `counted`.
CsCountContract(counted(_)) ==
    /\ (cs.last.op = "get_checkpoint_count" /\ counted(cs.last))
       => /\ cs.last.after = cs.last.before
          /\ docs = cs.last.before
          /\ cs.last.ret = Cardinality(CsThreadTagged(cs.last))
    /\ (cs.prev.op = "get_checkpoint_count" /\ counted(cs.prev)
        /\ CsDeleted(cs.last) /\ CsSameChat(cs.prev, cs.last))
       => /\ cs.last.ret >= cs.prev.ret
          /\ CsBareOnly(cs.last) # {} => cs.last.ret > cs.prev.ret
    /\ (CsDeleted(cs.prev) /\ cs.last.op = "get_checkpoint_count"
        /\ counted(cs.last) /\ CsSameChat(cs.prev, cs.last))
       => cs.last.ret = 0

CsAnyCount(rec) == TRUE

CsPlainCount(rec) == rec.chat_id # "" /\ ~rec.failed

\* C22 as stated: get_checkpoint_count changes no document and returns the
\* number of records tagged with the thread id in the checkpoint
\* collections; a delete_chat_checkpoints made right after it without
\* failure returns at least that number, more when records matched by the
\* bare fields alone exist; a count made right after the delete returns 0.
C22_Original == CsCountContract(CsAnyCount)

\* C22 amended: the same for a count with a non-empty chat_id inside which no
\* database call fails.
C22_CountAndDelete == CsCountContract(CsPlainCount)

\* C22 witness: a count for ("a","b_c") returned a number above 0 and the
\* delete made right after it, without failure, returned a larger one.
C22_Witness ==
    /\ CsCounted(cs.prev) /\ CsDeleted(cs.last)
    /\ Chat(cs.prev.user_id, cs.prev.chat_id) = ChatA
    /\ CsSameChat(cs.prev, cs.last)
    /\ cs.prev.ret > 0
    /\ CsBareOnly(cs.last) # {}
    /\ cs.last.ret > cs.prev.ret
    /\ ThreadMatches(docs, CheckpointCollections, cs.last.thread_id) = {}

\* ------------------------------------------------ delete-chat calls together
\* Two DELETE requests in progress at once.  delete_chat is a coroutine that
\* never awaits, so once the event loop has begun the body of one request it
\* runs it to its response before it begins the body of the other.

\* The event loop is not inside the body of another delete_chat request.
LoopFree(call) == \A o \in Calls \ {call} : pc[o] \in {"idle", "list", "done"}

\* The request has arrived; its body begins with the listing.
BeginBody(call) == LoopFree(call) /\ ListFiles(call)

\* Both requests name the chat ("a","b_c").
StartSame(call) == Start(call) /\ arg'[call] = ChatA

\* The chat holds messages and objects within the bounds and at most one
\* point and one document of each kind; the other chats hold nothing.
InitPair ==
    /\ \E n \in 0..MaxMsgs, names \in {{}, {"n1"}, FileNames},
          pts \in {{}, SmallPoints(ChatA)}, ds \in {{}, SmallDocs(ChatA)} :
        /\ messages = [ch \in Chats |-> IF ch = ChatA THEN n ELSE 0]
        /\ objects = {ObjectKey(ChatA.user_id, ChatA.chat_id, nm) : nm \in names}
        /\ collection_exists = TRUE
        /\ points = pts
        /\ docs = ds
    /\ InitCalls
    /\ InitBeside

NextPair ==
    \E call \in Calls :
        \/ StartSame(call)
        \/ BeginBody(call)
        \/ CheckMessages(call)
        \/ RemoveObject(call)
        \/ DeleteEmbeddings(call)
        \/ DeleteCheckpoints(call)
        \/ DeleteHistory(call)
        \/ Respond(call)

SpecPair == InitPair /\ [][NextPair]_vars

Succeeded == {c \in Calls : Done(c) /\ Status(c) = "ok"}

RECURSIVE SumFiles(_)
SumFiles(S) ==
    IF S = {} THEN 0
    ELSE LET c == CHOOSE x \in S : TRUE
         IN  Counts(c).files + SumFiles(S \ {c})

RECURSIVE SumMessages(_)
SumMessages(S) ==
    IF S = {} THEN 0
    ELSE LET c == CHOOSE x \in S : TRUE
         IN  Counts(c).messages + SumMessages(S \ {c})

\* Both slots hold a request for the same chat.
SameChat == \A c \in Calls : pc[c] # "idle" /\ arg[c] = arg[1]

InsideLock(c) == agent.req[c].pc \in {"submitted", "turn", "turn_left"}

\* C24: a lock is held only by a request inside "async with agent_lock", so
\* it is free once the holder's turn has ended and the handler has left the
\* block, whether the turn returned or raised; every request waiting for
\* the lock comes to hold it; and a request that has been answered has no
\* user/chat context left, neither in the handler nor in the executor
\* thread.
C24_LockReleasedContextCleared ==
    /\ [](\A l \in LockIds :
            agent.held[l] # 0
            => InsideLock(agent.held[l]) /\ agent.req[agent.held[l]].agent_lock = l)
    /\ [](\A c \in Calls :
            agent.req[c].pc = "done"
            => agent.req[c].ctx = Absent /\ agent.req[c].thread_ctx = Absent)
    /\ \A c \in Calls :
          (agent.req[c].pc = "turn_left")
              ~> (agent.req[c].pc = "done" /\ agent.held[agent.req[c].agent_lock] # c)
    /\ \A c \in Calls :
          (agent.req[c].pc = "waiting")
              ~> (InsideLock(c) /\ agent.held[agent.req[c].agent_lock] = c)

\* C24 witness: a turn raised, its request was answered, and a request that
\* had waited for the same lock is now in its turn.
C24_Witness ==
    \E a \in Calls, b \in Calls :
        /\ agent.req[a].pc = "done" /\ agent.req[a].outcome = "raised"
        /\ agent.req[a].ctx = Absent
        /\ agent.req[b].waited /\ InTurn(b)
        /\ agent.req[b].agent_lock = agent.req[a].agent_lock
        /\ agent.held[agent.req[b].agent_lock] = b

=============================================================================
